---- MODULE Spec2Model ----
(***************************************************************************)
(* Landing-decision controller of the global planner                       *)
(* (src/global_planner/src/nodes/waypoint_generator.cpp): the four-state   *)
(* machine GOTO / ALTITUDE_CHANGE / LOITER / LAND, the landing-suitability *)
(* hysteresis filter and the spiral exploration pattern.                   *)
(*                                                                         *)
(* Numbers.  Lengths are integers in units of half a metre (the only       *)
(* length literal of the source is 0.5f).  Smoothed landability values are *)
(* fixed-point numbers with FracBits fractional bits, rounded to nearest,  *)
(* ties to even, as IEEE arithmetic rounds.  NaN is the sentinel NaN.      *)
(***************************************************************************)
EXTENDS Integers, Sequences, FiniteSets, TLC

\* ------------------------------------------------------------------ bounds
FracBits == 1          \* fractional bits of a smoothed landability value
MaxSeq == 23           \* largest grid sequence number the environment sends
MaxFactor == 2         \* largest growth factor explored
MaxCoord == 4          \* operating area: |x|, |y| <= MaxCoord (half metres)
MaxExplored == 1       \* pattern points followed in Spec and SpecLatency
MaxResets == 1         \* reset requests the environment makes
GridHalf == 2          \* the grid has 2*GridHalf+1 rows and columns
BetaDen == 4           \* smoothing factors tried in SpecTuned: n / BetaDen

\* ------------------------------------------------------- program constants
NaN == -99                     \* NAN of nan_setpoint
DecisionWindow == 20           \* abs(seq - start) > 20
ExplorationLandingRadius == 1  \* landing_radius_ = 0.5f
PercentileLanding == 80        \* landingAreaHeightPercentile(80.f)
LAND_SPEED == 1                \* the descent speed (half metres per second)

Scale == 2 ^ FracBits
GridRows == 2 * GridHalf + 1

GOTO == "GOTO"
ALTITUDE_CHANGE == "ALTITUDE_CHANGE"
LOITER == "LOITER"
LAND == "LAND"
GPState == {GOTO, ALTITUDE_CHANGE, LOITER, LAND}

REPEAT == "REPEAT"
NEXT1 == "NEXT1"
NEXT2 == "NEXT2"
ERROR == "ERROR"
NONE == "NONE"

Vector3f(x, y, z) == [x |-> x, y |-> y, z |-> z]
nan_setpoint == Vector3f(NaN, NaN, NaN)

Abs(a) == IF a < 0 THEN -a ELSE a

\* ---------------------------------------------------------------- terrain
\* A terrain snapshot: land_(i, j) in {0, 1} and a height per cell.
AllCells == (0 .. GridRows - 1) \X (0 .. GridRows - 1)
UniformGrid(v, h) ==
  [land_ |-> [c \in AllCells |-> v], mean_ |-> [c \in AllCells |-> h], cell_size_ |-> 1]
OneBadCellGrid(bad, h) ==
  [land_ |-> [c \in AllCells |-> IF c = bad THEN 0 ELSE 1],
   mean_ |-> [c \in AllCells |-> h], cell_size_ |-> 1]
TerrainSnapshots ==
  << UniformGrid(1, 0), OneBadCellGrid(<<GridHalf, GridHalf>>, 0) >>

\* The fixed exploration pattern: a closed loop of unit offsets.
exploration_pattern ==
  << [x |-> 1, y |-> 0],  [x |-> 1, y |-> 1],   [x |-> 0, y |-> 1],  [x |-> -1, y |-> 1],
     [x |-> -1, y |-> 0], [x |-> -1, y |-> -1], [x |-> 0, y |-> -1], [x |-> 1, y |-> -1] >>

\* ------------------------------------------------------------------ state
VARIABLES
  state,                             \* usm::StateMachine::m_currentState
  prev_slp_state_,
  trigger_reset_,
  is_land_waypoint_,
  position_, yaw_,                   \* vehicle pose, set by the pose callback
  goal_, velocity_setpoint_, yaw_setpoint_, yaw_speed_setpoint_,
  landing_radius_, loiter_height_,
  altitude_landing_area_percentile_,
  can_land_hysteresis_,              \* sequence of fixed-point values 0 .. Scale
  smoothing_land_cell_, update_smoothing_size_,
  beta_, can_land_thr_, spiral_width_,
  decision_taken_, can_land_,
  explorarion_is_active_, n_explored_pattern_, factor_exploration_,
  exploration_anchor_,
  grid_slp_,                         \* index of the snapshot in TerrainSnapshots
  grid_slp_seq_, start_seq_landing_decision_,
  loiter_position_, loiter_yaw_,
  transition,                        \* what runCurrentState returned in the step
                                     \* that led here (NONE for a callback step)
  published,                         \* the tuples that step handed to
                                     \* publishTrajectorySetpoints_
  mission_leg,                       \* environment: the current item of Mission
  resets_done,                       \* environment: reset requests made so far
  loiter_cycles,                     \* history (SpecLatency): runLoiter calls of the
                                     \* current or last LOITER stay, -1 if none
  lap_offset                         \* history: per pattern index, the offset
                                     \* magnitude of the last goal generated at it

ctl == << state, prev_slp_state_, goal_, velocity_setpoint_, yaw_setpoint_,
          landing_radius_, altitude_landing_area_percentile_, can_land_hysteresis_,
          update_smoothing_size_, decision_taken_, can_land_, explorarion_is_active_,
          n_explored_pattern_, factor_exploration_, exploration_anchor_,
          start_seq_landing_decision_, loiter_position_, loiter_yaw_ >>
cfg == << yaw_speed_setpoint_, loiter_height_, smoothing_land_cell_, beta_,
          can_land_thr_, spiral_width_ >>
inp == << trigger_reset_, is_land_waypoint_, position_, yaw_, grid_slp_, grid_slp_seq_ >>
out == << transition, published >>
env == << mission_leg, resets_done >>
hist == << loiter_cycles, lap_offset >>
vars == << ctl, cfg, inp, out, env, hist >>

\* The WaypointGenerator object as one value.
Self ==
  [ state |-> state, prev_slp_state_ |-> prev_slp_state_,
    trigger_reset_ |-> trigger_reset_, is_land_waypoint_ |-> is_land_waypoint_,
    position_ |-> position_, yaw_ |-> yaw_, goal_ |-> goal_,
    velocity_setpoint_ |-> velocity_setpoint_, yaw_setpoint_ |-> yaw_setpoint_,
    yaw_speed_setpoint_ |-> yaw_speed_setpoint_,
    landing_radius_ |-> landing_radius_, loiter_height_ |-> loiter_height_,
    altitude_landing_area_percentile_ |-> altitude_landing_area_percentile_,
    can_land_hysteresis_ |-> can_land_hysteresis_,
    smoothing_land_cell_ |-> smoothing_land_cell_,
    update_smoothing_size_ |-> update_smoothing_size_,
    beta_ |-> beta_, can_land_thr_ |-> can_land_thr_, spiral_width_ |-> spiral_width_,
    decision_taken_ |-> decision_taken_, can_land_ |-> can_land_,
    explorarion_is_active_ |-> explorarion_is_active_,
    n_explored_pattern_ |-> n_explored_pattern_,
    factor_exploration_ |-> factor_exploration_,
    exploration_anchor_ |-> exploration_anchor_,
    grid_slp_ |-> grid_slp_, grid_slp_seq_ |-> grid_slp_seq_,
    start_seq_landing_decision_ |-> start_seq_landing_decision_,
    loiter_position_ |-> loiter_position_, loiter_yaw_ |-> loiter_yaw_ ]

\* ------------------------------------------------------- helper functions
Sgn(a) == IF a > 0 THEN 1 ELSE IF a < 0 THEN -1 ELSE 0

\* avoidance::nextYaw(u, v): the heading from u to v, as a direction code.
nextYaw(u, v) == 3 * Sgn(v.y - u.y) + Sgn(v.x - u.x)

\* a / d rounded to nearest, ties to even (a >= 0, d > 0).
RoundDiv(a, d) ==
  LET q == a \div d
      r == a % d
  IN IF 2 * r < d THEN q
     ELSE IF 2 * r > d THEN q + 1
     ELSE IF q % 2 = 0 THEN q ELSE q + 1

\* Variant: the raw value enters with weight one.
Smooth_unweighted(beta, prev, cell_land_value) ==
  RoundDiv(beta.num * prev + beta.den * cell_land_value * Scale, beta.den)

\* (beta_ * prev) + (1.f - beta_) * cell_land_value, in fixed point.
Smooth(beta, prev, cell_land_value) ==
  RoundDiv(beta.num * prev + (beta.den - beta.num) * cell_land_value * Scale, beta.den)

WindowSize(c) == (c.smoothing_land_cell_ * 2 + 1) * (c.smoothing_land_cell_ * 2 + 1)
Zeros(n) == [k \in 1 .. n |-> 0]

\* The grid cell (i, j) the loops of runLoiter pair with buffer index k - 1.
WindowCell(c, k) ==
  LET w == c.smoothing_land_cell_ * 2 + 1
      offset_center == GridRows \div 2
  IN << offset_center - c.smoothing_land_cell_ + ((k - 1) \div w),
        offset_center - c.smoothing_land_cell_ + ((k - 1) % w) >>

\* The rows and columns the loops of runLoiter visit.
FilterRange(c) ==
  (GridRows \div 2) - c.smoothing_land_cell_ .. (GridRows \div 2) + c.smoothing_land_cell_

\* The buffer index runLoiter writes for grid cell (i, j).
FilterIndex(c, i, j) ==
  LET offset_center == GridRows \div 2
  IN (c.smoothing_land_cell_ * 2 + 1) * (i - offset_center + c.smoothing_land_cell_)
       + (j - offset_center + c.smoothing_land_cell_)

\* The percentile-th height of the landing area (the smoothing window), taken
\* from the sorted heights at index round(percentile / 100 * size).
landingAreaHeightPercentile(c, percentile) ==
  LET n == WindowSize(c)
      alt(k) == TerrainSnapshots[c.grid_slp_].mean_[WindowCell(c, k)]
      idx == RoundDiv(percentile * n, 100)
      below(v) == Cardinality({k \in 1 .. n : alt(k) < v})
      upto(v) == Cardinality({k \in 1 .. n : alt(k) <= v})
  IN CHOOSE v \in {alt(k) : k \in 1 .. n} : below(v) <= idx /\ idx < upto(v)

\* Horizontal distance between goal and position within landing_radius_.
withinLandingRadius(c) ==
  LET dx == c.goal_.x - c.position_.x
      dy == c.goal_.y - c.position_.y
  IN dx * dx + dy * dy <= c.landing_radius_ * c.landing_radius_

\* Altitude within loiter_height_ of the reference altitude.
inVerticalRange(c) ==
  Abs(c.position_.z - c.altitude_landing_area_percentile_) <= c.loiter_height_

Setpoint(pos, vel, yaw, yaw_speed) ==
  [position |-> pos, velocity |-> vel, yaw |-> yaw, yaw_speed |-> yaw_speed]

\* ------------------------------------------------------------- the methods
\* Variant: a transit waypoint leaves the growth factor alone.
updateGPState_keepsFactor(c) ==
  LET c1 == IF c.update_smoothing_size_ \/ Len(c.can_land_hysteresis_) = 0
            THEN [c EXCEPT !.can_land_hysteresis_ = Zeros(WindowSize(c)),
                           !.update_smoothing_size_ = FALSE]
            ELSE c
  IN IF ~c1.is_land_waypoint_
     THEN [c1 EXCEPT !.decision_taken_ = FALSE,
                     !.can_land_ = TRUE,
                     !.can_land_hysteresis_ = Zeros(Len(c1.can_land_hysteresis_)),
                     !.explorarion_is_active_ = FALSE,
                     !.n_explored_pattern_ = -1]
     ELSE c1

\* Variant: the buffer is sized on first use only.
updateGPState_firstUseOnly(c) ==
  LET c1 == IF Len(c.can_land_hysteresis_) = 0
            THEN [c EXCEPT !.can_land_hysteresis_ = Zeros(WindowSize(c)),
                           !.update_smoothing_size_ = FALSE]
            ELSE [c EXCEPT !.update_smoothing_size_ = FALSE]
  IN IF ~c1.is_land_waypoint_
     THEN [c1 EXCEPT !.decision_taken_ = FALSE,
                     !.can_land_ = TRUE,
                     !.can_land_hysteresis_ = Zeros(Len(c1.can_land_hysteresis_)),
                     !.explorarion_is_active_ = FALSE,
                     !.n_explored_pattern_ = -1,
                     !.factor_exploration_ = 1]
     ELSE c1

updateGPState(c) ==
  LET c1 == IF c.update_smoothing_size_ \/ Len(c.can_land_hysteresis_) = 0
            THEN [c EXCEPT !.can_land_hysteresis_ = Zeros(WindowSize(c)),
                           !.update_smoothing_size_ = FALSE]
            ELSE c
  IN IF ~c1.is_land_waypoint_
     THEN [c1 EXCEPT !.decision_taken_ = FALSE,
                     !.can_land_ = TRUE,
                     !.can_land_hysteresis_ = Zeros(Len(c1.can_land_hysteresis_)),
                     !.explorarion_is_active_ = FALSE,
                     !.n_explored_pattern_ = -1,
                     !.factor_exploration_ = 1]
     ELSE c1

\* Variant: an unmapped transition leaves the state as it is.
chooseNextState_errorStays(c, currentState, t) ==
  LET next ==
        CASE currentState = GOTO /\ t = NEXT1 -> ALTITUDE_CHANGE
          [] currentState = GOTO /\ t = NEXT2 -> LOITER
          [] currentState = ALTITUDE_CHANGE /\ t = NEXT1 -> LOITER
          [] currentState = LOITER /\ t = NEXT1 -> LAND
          [] currentState = LOITER /\ t = NEXT2 -> GOTO
          [] OTHER -> currentState
  IN [c EXCEPT !.prev_slp_state_ = currentState, !.state = next]

\* Variant: LOITER maps NEXT2 to LOITER.
chooseNextState_loiterStays(c, currentState, t) ==
  LET next ==
        CASE currentState = GOTO /\ t = NEXT1 -> ALTITUDE_CHANGE
          [] currentState = GOTO /\ t = NEXT2 -> LOITER
          [] currentState = ALTITUDE_CHANGE /\ t = NEXT1 -> LOITER
          [] currentState = LOITER /\ t = NEXT1 -> LAND
          [] currentState = LOITER /\ t = NEXT2 -> LOITER
          [] OTHER -> GOTO
  IN [c EXCEPT !.prev_slp_state_ = currentState, !.state = next]

chooseNextState(c, currentState, t) ==
  LET next ==
        CASE currentState = GOTO /\ t = NEXT1 -> ALTITUDE_CHANGE
          [] currentState = GOTO /\ t = NEXT2 -> LOITER
          [] currentState = ALTITUDE_CHANGE /\ t = NEXT1 -> LOITER
          [] currentState = LOITER /\ t = NEXT1 -> LAND
          [] currentState = LOITER /\ t = NEXT2 -> GOTO
          [] OTHER -> GOTO
  IN [c EXCEPT !.prev_slp_state_ = currentState, !.state = next]

\* Variant: the step to ALTITUDE_CHANGE does not ask for a landing waypoint.
GoToTransition_anyWaypoint(c, pub) ==
  IF withinLandingRadius(c) /\ ~inVerticalRange(c)
  THEN [c |-> c, t |-> NEXT1, pub |-> pub]
  ELSE IF withinLandingRadius(c) /\ inVerticalRange(c) /\ c.is_land_waypoint_
  THEN [c |-> [c EXCEPT !.start_seq_landing_decision_ = c.grid_slp_seq_],
        t |-> NEXT2, pub |-> pub]
  ELSE [c |-> c, t |-> REPEAT, pub |-> pub]

\* The transition runGoTo returns, on the object c it has updated.
GoToTransition(c, pub) ==
  IF withinLandingRadius(c) /\ ~inVerticalRange(c) /\ c.is_land_waypoint_
  THEN [c |-> c, t |-> NEXT1, pub |-> pub]
  ELSE IF withinLandingRadius(c) /\ inVerticalRange(c) /\ c.is_land_waypoint_
  THEN [c |-> [c EXCEPT !.start_seq_landing_decision_ = c.grid_slp_seq_],
        t |-> NEXT2, pub |-> pub]
  ELSE [c |-> c, t |-> REPEAT, pub |-> pub]

\* Variant: runGoTo leaves the hysteresis buffer alone.
runGoTo_keepsFilter(c) ==
  LET c1 == [c EXCEPT !.decision_taken_ = FALSE]
      c2 == IF c1.explorarion_is_active_
            THEN [c1 EXCEPT !.landing_radius_ = ExplorationLandingRadius,
                            !.yaw_setpoint_ = nextYaw(c1.position_, c1.goal_)]
            ELSE c1
      pub == << Setpoint(c2.goal_, c2.velocity_setpoint_, c2.yaw_setpoint_,
                         c2.yaw_speed_setpoint_) >>
      c3 == [c2 EXCEPT !.altitude_landing_area_percentile_ =
                           landingAreaHeightPercentile(c2, PercentileLanding)]
  IN GoToTransition(c3, pub)

runGoTo(c) ==
  LET c1 == [c EXCEPT !.decision_taken_ = FALSE]
      c2 == IF c1.explorarion_is_active_
            THEN [c1 EXCEPT !.landing_radius_ = ExplorationLandingRadius,
                            !.yaw_setpoint_ = nextYaw(c1.position_, c1.goal_)]
            ELSE c1
      pub == << Setpoint(c2.goal_, c2.velocity_setpoint_, c2.yaw_setpoint_,
                         c2.yaw_speed_setpoint_) >>
      c3 == [c2 EXCEPT !.altitude_landing_area_percentile_ =
                           landingAreaHeightPercentile(c2, PercentileLanding),
                       !.can_land_hysteresis_ = Zeros(Len(c2.can_land_hysteresis_))]
  IN GoToTransition(c3, pub)

\* Variant: the step to LOITER is announced as NEXT2.
AltitudeChangeTransition_next2(c, pub) ==
  IF withinLandingRadius(c) /\ inVerticalRange(c) /\ c.is_land_waypoint_
  THEN [c |-> [c EXCEPT !.start_seq_landing_decision_ = c.grid_slp_seq_],
        t |-> NEXT2, pub |-> pub]
  ELSE [c |-> c, t |-> REPEAT, pub |-> pub]

\* Variant: the step to LOITER leaves the decision window's start alone.
AltitudeChangeTransition_keepsStart(c, pub) ==
  IF withinLandingRadius(c) /\ inVerticalRange(c) /\ c.is_land_waypoint_
  THEN [c |-> c, t |-> NEXT1, pub |-> pub]
  ELSE [c |-> c, t |-> REPEAT, pub |-> pub]

\* The transition runAltitudeChange returns, on the object c it has updated.
AltitudeChangeTransition(c, pub) ==
  IF withinLandingRadius(c) /\ inVerticalRange(c) /\ c.is_land_waypoint_
  THEN [c |-> [c EXCEPT !.start_seq_landing_decision_ = c.grid_slp_seq_],
        t |-> NEXT1, pub |-> pub]
  ELSE [c |-> c, t |-> REPEAT, pub |-> pub]

runAltitudeChange(c) ==
  LET c1 == IF c.prev_slp_state_ # ALTITUDE_CHANGE
            THEN [c EXCEPT !.yaw_setpoint_ = c.yaw_] ELSE c
      c2 == [c1 EXCEPT !.goal_.z = NaN,
                       !.altitude_landing_area_percentile_ =
                           landingAreaHeightPercentile(c1, PercentileLanding)]
      direction ==
        IF Abs(c2.position_.z - c2.altitude_landing_area_percentile_) - c2.loiter_height_ < 0
        THEN 1 ELSE -1
      c3 == [c2 EXCEPT !.velocity_setpoint_.z = direction * LAND_SPEED]
      pub == << Setpoint(c3.goal_, c3.velocity_setpoint_, c3.yaw_setpoint_,
                         c3.yaw_speed_setpoint_) >>
      c4 == IF c3.explorarion_is_active_
            THEN [c3 EXCEPT !.landing_radius_ = ExplorationLandingRadius] ELSE c3
  IN AltitudeChangeTransition(c4, pub)

\* The hysteresis update of runLoiter (both loops).
FilterUpdate(c) ==
  [k \in 1 .. Len(c.can_land_hysteresis_) |->
     Smooth(c.beta_, c.can_land_hysteresis_[k],
            TerrainSnapshots[c.grid_slp_].land_[WindowCell(c, k)])]

\* The decision loop of runLoiter from index i on: the running AND, with the
\* flip back to true once land_counter reaches the buffer size.
RECURSIVE LandDecision_atThreshold(_, _, _, _, _)
\* Variant: a cell at the threshold votes for landing.
LandDecision_atThreshold(h, thr, i, can_land, land_counter) ==
  IF i > Len(h) THEN can_land
  ELSE LET vote == h[i] >= thr
           counter == IF vote THEN land_counter + 1 ELSE land_counter
           anded == can_land /\ vote
           flipped == IF ~anded /\ counter = Len(h) THEN TRUE ELSE anded
       IN LandDecision_atThreshold(h, thr, i + 1, flipped, counter)

RECURSIVE LandDecision_plainAnd(_, _, _, _, _)
\* Variant: the running AND without the flip back.
LandDecision_plainAnd(h, thr, i, can_land, land_counter) ==
  IF i > Len(h) THEN can_land
  ELSE LandDecision_plainAnd(h, thr, i + 1, can_land /\ (h[i] > thr), land_counter)

RECURSIVE LandDecision(_, _, _, _, _)
LandDecision(h, thr, i, can_land, land_counter) ==
  IF i > Len(h) THEN can_land
  ELSE LET vote == h[i] > thr
           counter == IF vote THEN land_counter + 1 ELSE land_counter
           anded == can_land /\ vote
           flipped == IF ~anded /\ counter = Len(h) THEN TRUE ELSE anded
       IN LandDecision(h, thr, i + 1, flipped, counter)

\* Variant: every exploration step captures the anchor.
ExplorationStep_reanchors(c) ==
  LET c1 == [c EXCEPT !.exploration_anchor_ = c.loiter_position_,
                      !.explorarion_is_active_ = TRUE]
      offset_exploration_setpoint ==
        c1.spiral_width_ * c1.factor_exploration_ * 2 * c1.smoothing_land_cell_
          * TerrainSnapshots[c1.grid_slp_].cell_size_
      n1 == c1.n_explored_pattern_ + 1
      wrap == n1 = Len(exploration_pattern)
      n == IF wrap THEN 0 ELSE n1
      factor == IF wrap THEN c1.factor_exploration_ + 1 ELSE c1.factor_exploration_
  IN [c1 EXCEPT !.n_explored_pattern_ = n,
                !.factor_exploration_ = factor,
                !.goal_ = Vector3f(
                   c1.exploration_anchor_.x
                     + offset_exploration_setpoint * exploration_pattern[n + 1].x,
                   c1.exploration_anchor_.y
                     + offset_exploration_setpoint * exploration_pattern[n + 1].y,
                   c1.exploration_anchor_.z),
                !.velocity_setpoint_ = nan_setpoint]

\* The exploration step of runLoiter (the decision_taken_ && !can_land_ branch).
ExplorationStep(c) ==
  LET c1 == IF ~c.explorarion_is_active_
            THEN [c EXCEPT !.exploration_anchor_ = c.loiter_position_,
                           !.explorarion_is_active_ = TRUE]
            ELSE c
      offset_exploration_setpoint ==
        c1.spiral_width_ * c1.factor_exploration_ * 2 * c1.smoothing_land_cell_
          * TerrainSnapshots[c1.grid_slp_].cell_size_
      n1 == c1.n_explored_pattern_ + 1
      wrap == n1 = Len(exploration_pattern)
      n == IF wrap THEN 0 ELSE n1
      factor == IF wrap THEN c1.factor_exploration_ + 1 ELSE c1.factor_exploration_
  IN [c1 EXCEPT !.n_explored_pattern_ = n,
                !.factor_exploration_ = factor,
                !.goal_ = Vector3f(
                   c1.exploration_anchor_.x
                     + offset_exploration_setpoint * exploration_pattern[n + 1].x,
                   c1.exploration_anchor_.y
                     + offset_exploration_setpoint * exploration_pattern[n + 1].y,
                   c1.exploration_anchor_.z),
                !.velocity_setpoint_ = nan_setpoint]

\* Variant: the window has elapsed once the difference reaches it.
WindowElapsed_atWindow(c) ==
  Abs(c.grid_slp_seq_ - c.start_seq_landing_decision_) >= DecisionWindow

\* Whether the decision window has elapsed.
WindowElapsed(c) ==
  Abs(c.grid_slp_seq_ - c.start_seq_landing_decision_) > DecisionWindow

runLoiter(c) ==
  LET c1 == IF c.prev_slp_state_ # LOITER
            THEN [c EXCEPT !.loiter_position_ = c.position_, !.loiter_yaw_ = c.yaw_]
            ELSE c
      c2 == [c1 EXCEPT !.can_land_hysteresis_ = FilterUpdate(c1)]
      c3 == IF WindowElapsed(c2)
            THEN [c2 EXCEPT !.decision_taken_ = TRUE,
                            !.can_land_ = LandDecision(c2.can_land_hysteresis_,
                                                       c2.can_land_thr_, 1, c2.can_land_, 0)]
            ELSE c2
      pub == << Setpoint(c3.loiter_position_, nan_setpoint, c3.loiter_yaw_, NaN) >>
  IN IF c3.decision_taken_ /\ c3.can_land_
     THEN [c |-> c3, t |-> NEXT1, pub |-> pub]
     ELSE IF c3.decision_taken_ /\ ~c3.can_land_
     THEN [c |-> ExplorationStep(c3), t |-> NEXT2, pub |-> pub]
     ELSE [c |-> c3, t |-> REPEAT, pub |-> pub]

\* Variant: runLand publishes the vehicle's own position and heading.
runLand_followsVehicle(c) ==
  LET c1 == [c EXCEPT !.loiter_position_.z = NaN]
      vel_sp == [nan_setpoint EXCEPT !.z = -LAND_SPEED]
  IN [c |-> c1, t |-> REPEAT,
      pub |-> << Setpoint([c1.position_ EXCEPT !.z = NaN], vel_sp, c1.yaw_, NaN) >>]

\* Variant: runLand asks for the next state.
runLand_returnsNext1(c) ==
  LET c1 == [c EXCEPT !.loiter_position_.z = NaN]
      vel_sp == [nan_setpoint EXCEPT !.z = -LAND_SPEED]
  IN [c |-> c1, t |-> NEXT1,
      pub |-> << Setpoint(c1.loiter_position_, vel_sp, c1.loiter_yaw_, NaN) >>]

runLand(c) ==
  LET c1 == [c EXCEPT !.loiter_position_.z = NaN]
      vel_sp == [nan_setpoint EXCEPT !.z = -LAND_SPEED]
  IN [c |-> c1, t |-> REPEAT,
      pub |-> << Setpoint(c1.loiter_position_, vel_sp, c1.loiter_yaw_, NaN) >>]

\* Variant: the reset request is left pending.
runCurrentState_keepsReset(c) ==
  IF c.trigger_reset_
  THEN [c |-> c, t |-> ERROR, pub |-> << >>]
  ELSE CASE c.state = GOTO -> runGoTo(c)
         [] c.state = ALTITUDE_CHANGE -> runAltitudeChange(c)
         [] c.state = LOITER -> runLoiter(c)
         [] c.state = LAND -> runLand(c)

runCurrentState(c) ==
  IF c.trigger_reset_
  THEN [c |-> [c EXCEPT !.trigger_reset_ = FALSE], t |-> ERROR, pub |-> << >>]
  ELSE CASE c.state = GOTO -> runGoTo(c)
         [] c.state = ALTITUDE_CHANGE -> runAltitudeChange(c)
         [] c.state = LOITER -> runLoiter(c)
         [] c.state = LAND -> runLand(c)

\* usm::StateMachine::iterateOnce: run the state, then follow its transition
\* unless it is REPEAT.
iterateOnce(c) ==
  LET r == runCurrentState(c)
  IN IF r.t # REPEAT
     THEN [r EXCEPT !.c = chooseNextState(r.c, r.c.state, r.t)]
     ELSE r

\* One planning cycle on the object c: the object after it, the transition
\* taken and the setpoints published.
Cycle(c) == iterateOnce(updateGPState(c))

\* ------------------------------------------------------------ environment
\* Before each planning cycle the node's callbacks hand the controller the
\* vehicle pose, the newest terrain grid with its sequence number and the kind
\* of the current waypoint.
InArea(v) == Abs(v.x) <= MaxCoord /\ Abs(v.y) <= MaxCoord
MissionGoal == Vector3f(0, 0, 3)
HomePose == [position_ |-> Vector3f(-MaxCoord, 0, 3), yaw_ |-> 0]
AtGoalLow(c) == [position_ |-> Vector3f(c.goal_.x, c.goal_.y, 1), yaw_ |-> 1]
AtGoalHigh(c) == [position_ |-> Vector3f(c.goal_.x, c.goal_.y, 3), yaw_ |-> 2]

\* Poses the vehicle reports: at the goal, low or high, or at home.
Poses(c) == {AtGoalLow(c), AtGoalHigh(c), HomePose}

\* A waypoint that is not a landing waypoint brings the mission's goal with it.
setWaypoint(c, b) ==
  [c EXCEPT !.is_land_waypoint_ = b, !.goal_ = IF b THEN c.goal_ ELSE MissionGoal]
setPose(c, p) == [c EXCEPT !.position_ = p.position_, !.yaw_ = p.yaw_]
setGrid(c, g, seq) == [c EXCEPT !.grid_slp_ = g, !.grid_slp_seq_ = seq]

\* Sequence numbers the next grid may carry in Spec: a jump past the decision
\* window, or 0 after the grid source restarted.
NextSeqs(seq) == {0} \cup {n \in {seq + DecisionWindow + 1} : n <= MaxSeq}

NoOffsets == [i \in 0 .. Len(exploration_pattern) - 1 |-> -1]

\* The mission: the kind of each waypoint (TRUE: a landing waypoint).
Mission == << FALSE, TRUE, FALSE >>

Commit(c, t, pub) ==
  /\ state' = c.state
  /\ prev_slp_state_' = c.prev_slp_state_
  /\ trigger_reset_' = c.trigger_reset_
  /\ is_land_waypoint_' = c.is_land_waypoint_
  /\ position_' = c.position_
  /\ yaw_' = c.yaw_
  /\ goal_' = c.goal_
  /\ velocity_setpoint_' = c.velocity_setpoint_
  /\ yaw_setpoint_' = c.yaw_setpoint_
  /\ yaw_speed_setpoint_' = c.yaw_speed_setpoint_
  /\ landing_radius_' = c.landing_radius_
  /\ loiter_height_' = c.loiter_height_
  /\ altitude_landing_area_percentile_' = c.altitude_landing_area_percentile_
  /\ can_land_hysteresis_' = c.can_land_hysteresis_
  /\ smoothing_land_cell_' = c.smoothing_land_cell_
  /\ update_smoothing_size_' = c.update_smoothing_size_
  /\ beta_' = c.beta_
  /\ can_land_thr_' = c.can_land_thr_
  /\ spiral_width_' = c.spiral_width_
  /\ decision_taken_' = c.decision_taken_
  /\ can_land_' = c.can_land_
  /\ explorarion_is_active_' = c.explorarion_is_active_
  /\ n_explored_pattern_' = c.n_explored_pattern_
  /\ factor_exploration_' = c.factor_exploration_
  /\ exploration_anchor_' = c.exploration_anchor_
  /\ grid_slp_' = c.grid_slp_
  /\ grid_slp_seq_' = c.grid_slp_seq_
  /\ start_seq_landing_decision_' = c.start_seq_landing_decision_
  /\ loiter_position_' = c.loiter_position_
  /\ loiter_yaw_' = c.loiter_yaw_
  /\ transition' = t
  /\ published' = pub

InitWith(beta) ==
  /\ state = GOTO
  /\ prev_slp_state_ = GOTO
  /\ trigger_reset_ = FALSE
  /\ is_land_waypoint_ = FALSE
  /\ position_ = HomePose.position_
  /\ yaw_ = 0
  /\ goal_ = MissionGoal
  /\ velocity_setpoint_ = nan_setpoint
  /\ yaw_setpoint_ = NaN
  /\ yaw_speed_setpoint_ = NaN
  /\ landing_radius_ = 3
  /\ loiter_height_ = 1
  /\ altitude_landing_area_percentile_ = 0
  /\ can_land_hysteresis_ = << >>
  /\ smoothing_land_cell_ = 1
  /\ update_smoothing_size_ = FALSE
  /\ beta_ = beta
  /\ can_land_thr_ = Scale \div 2
  /\ spiral_width_ = 1
  /\ decision_taken_ = FALSE
  /\ can_land_ = TRUE
  /\ explorarion_is_active_ = FALSE
  /\ n_explored_pattern_ = -1
  /\ factor_exploration_ = 1
  /\ exploration_anchor_ = Vector3f(0, 0, 0)
  /\ grid_slp_ = 1
  /\ grid_slp_seq_ = 0
  /\ start_seq_landing_decision_ = 0
  /\ loiter_position_ = Vector3f(0, 0, 0)
  /\ loiter_yaw_ = 0
  /\ transition = NONE
  /\ published = << >>
  /\ mission_leg = 1
  /\ resets_done = 0
  /\ loiter_cycles = -1
  /\ lap_offset = NoOffsets

Init == InitWith([num |-> 1, den |-> 2])

\* Whether the result of a cycle stays within the model's bounds.
InBounds(c) == InArea(c.goal_) /\ c.factor_exploration_ <= MaxFactor

\* The pose callback.
PoseCallback ==
  \E p \in Poses(Self) :
    /\ InArea(p.position_)
    /\ p.position_ # position_
    /\ Commit(setPose(Self, p), NONE, << >>)
    /\ UNCHANGED << env, hist >>

\* The grid callback: a new terrain snapshot with its sequence number.
GridCallback ==
  \E g \in 1 .. Len(TerrainSnapshots), seq \in NextSeqs(grid_slp_seq_) :
    /\ Commit(setGrid(Self, g, seq), NONE, << >>)
    /\ UNCHANGED << env, hist >>

\* The mission callback: the next waypoint of the mission.
WaypointCallback ==
  /\ mission_leg < Len(Mission)
  /\ mission_leg' = mission_leg + 1
  /\ Commit(setWaypoint(Self, Mission[mission_leg + 1]), NONE, << >>)
  /\ UNCHANGED << resets_done, hist >>

\* The reset request.
TriggerReset ==
  /\ ~trigger_reset_
  /\ resets_done < MaxResets
  /\ resets_done' = resets_done + 1
  /\ Commit([Self EXCEPT !.trigger_reset_ = TRUE], NONE, << >>)
  /\ UNCHANGED << mission_leg, hist >>

\* The offset magnitude of the goal an exploration step generated.
OffsetUsed(c) ==
  LET pt == exploration_pattern[c.n_explored_pattern_ + 1]
  IN IF pt.x # 0 THEN (c.goal_.x - c.exploration_anchor_.x) * pt.x
     ELSE (c.goal_.y - c.exploration_anchor_.y) * pt.y

\* lap_offset after the cycle r that started on c.
LapOffset(c, r) ==
  IF ~r.c.explorarion_is_active_ THEN NoOffsets
  ELSE IF ~c.trigger_reset_ /\ c.state = LOITER /\ r.t = NEXT2
  THEN [(IF updateGPState(c).explorarion_is_active_ THEN lap_offset ELSE NoOffsets)
          EXCEPT ![r.c.n_explored_pattern_] = OffsetUsed(r.c)]
  ELSE lap_offset

\* loiter_cycles after the cycle r that started on c.
LoiterCount(c, r) ==
  IF ~c.trigger_reset_ /\ c.state = LOITER THEN loiter_cycles + 1
  ELSE IF r.c.state = LOITER THEN 0
  ELSE -1

\* The timer callback. Exploration is followed for MaxExplored pattern points.
calculateWaypoint ==
  \E r \in {Cycle(Self)} :
    /\ InBounds(r.c)
    /\ r.c.n_explored_pattern_ < MaxExplored
    /\ Commit(r.c, r.t, r.pub)
    /\ lap_offset' = LapOffset(Self, r)
    /\ loiter_cycles' = -1
    /\ UNCHANGED env

Next ==
  \/ PoseCallback
  \/ GridCallback
  \/ WaypointCallback
  \/ TriggerReset
  \/ calculateWaypoint

Spec == Init /\ [][Next]_vars

\* ------------------------------------------- a grid per cycle (SpecLatency)
\* Every planning cycle is preceded by exactly one new grid, whose sequence
\* number is the previous one plus one.
UnitCycle ==
  \E g \in 1 .. Len(TerrainSnapshots) :
   \E r \in {Cycle(setGrid(Self, g, grid_slp_seq_ + 1))} :
    /\ grid_slp_seq_ < MaxSeq
    /\ InBounds(r.c)
    /\ r.c.n_explored_pattern_ < MaxExplored
    /\ Commit(r.c, r.t, r.pub)
    /\ lap_offset' = LapOffset(Self, r)
    /\ loiter_cycles' = LoiterCount(Self, r)
    /\ UNCHANGED env

NextLatency ==
  \/ PoseCallback
  \/ WaypointCallback
  \/ TriggerReset
  \/ UnitCycle

SpecLatency == Init /\ [][NextLatency]_vars

\* ------------------------------------------ exploration laps (SpecExplore)
\* The vehicle reaches each goal at loiter height, the terrain stays
\* unlandable and each new grid is a decision window later than the last.
ArriveCallback ==
  /\ position_ # AtGoalLow(Self).position_
  /\ Commit(setPose(Self, AtGoalLow(Self)), NONE, << >>)
  /\ UNCHANGED << env, hist >>

GridJump ==
  /\ Commit(setGrid(Self, 2, IF grid_slp_seq_ = 0 THEN DecisionWindow + 1 ELSE 0),
            NONE, << >>)
  /\ UNCHANGED << env, hist >>

calculateWaypointExplore ==
  \E r \in {Cycle(Self)} :
    /\ InBounds(r.c)
    /\ Commit(r.c, r.t, r.pub)
    /\ lap_offset' = LapOffset(Self, r)
    /\ loiter_cycles' = -1
    /\ UNCHANGED env

NextExplore ==
  \/ ArriveCallback
  \/ GridJump
  \/ WaypointCallback
  \/ calculateWaypointExplore

SpecExplore == Init /\ [][NextExplore]_vars

\* ----------------------------------------- tuned parameters (SpecTuned)
\* The smoothing factor is any multiple of 1 / BetaDen in [0, 1), the smoothing
\* radius is changed in flight, and both terrain snapshots arrive.
Betas == {[num |-> n, den |-> BetaDen] : n \in 0 .. BetaDen - 1}

InitTuned == \E beta \in Betas : InitWith(beta)

\* The smoothing radii the configuration switches between.
SmoothingRadii == {1, 2}

\* The parameter setter: a new smoothing radius asks for a new buffer.
setSmoothingLandCell(c, n) ==
  [c EXCEPT !.smoothing_land_cell_ = n, !.update_smoothing_size_ = TRUE]

SmoothingCallback ==
  \E n \in SmoothingRadii :
    /\ n <= GridHalf
    /\ n # smoothing_land_cell_
    /\ Commit(setSmoothingLandCell(Self, n), NONE, << >>)
    /\ UNCHANGED << env, hist >>

GridPick ==
  \E g \in 1 .. Len(TerrainSnapshots) :
    /\ Commit(setGrid(Self, g, IF grid_slp_seq_ = 0 THEN DecisionWindow + 1 ELSE 0),
              NONE, << >>)
    /\ UNCHANGED << env, hist >>

\* The timer callback. Exploration is followed for MaxExplored + 1 points.
calculateWaypointTuned ==
  \E r \in {Cycle(Self)} :
    /\ InBounds(r.c)
    /\ r.c.n_explored_pattern_ <= MaxExplored
    /\ Commit(r.c, r.t, r.pub)
    /\ lap_offset' = LapOffset(Self, r)
    /\ loiter_cycles' = -1
    /\ UNCHANGED env

NextTuned ==
  \/ ArriveCallback
  \/ GridPick
  \/ WaypointCallback
  \/ SmoothingCallback
  \/ calculateWaypointTuned

SpecTuned == InitTuned /\ [][NextTuned]_vars

\* ------------------------------------------------------------- properties
\* A step is a planning cycle exactly when it records a transition.
CycleRan == transition' # NONE

AllAbove(h, thr) == \A i \in 1 .. Len(h) : h[i] > thr

AllZero(h) == \A i \in 1 .. Len(h) : h[i] = 0

\* C1: LAND is absorbing: every cycle that starts in LAND with no reset pending,
\* whatever the pose, the terrain grid and the landing-waypoint flag are, ends
\* in LAND.
C1_LandAbsorbing ==
  [][(CycleRan /\ state = LAND /\ ~trigger_reset_) => state' = LAND]_vars

\* A cycle ran runLand on a transit waypoint and the controller stayed in LAND.
C1_Witness ==
  state = LAND /\ transition = REPEAT /\ ~is_land_waypoint_

\* C2: LAND is entered only from LOITER, only in a cycle in which the decision
\* window has elapsed (decision_taken_ is true) and can_land_ is true, i.e. every
\* cell of the hysteresis buffer is strictly above can_land_thr_; conversely a
\* LOITER cycle with the window elapsed and every smoothed cell above the
\* threshold goes to LAND.
C2_LandEntry ==
  [][CycleRan =>
       /\ (state # LAND /\ state' = LAND) =>
            /\ state = LOITER
            /\ ~trigger_reset_
            /\ WindowElapsed(Self)
            /\ decision_taken_'
            /\ can_land_'
            /\ AllAbove(can_land_hysteresis_', can_land_thr_)
       /\ ( /\ state = LOITER
            /\ ~trigger_reset_
            /\ WindowElapsed(Self)
            /\ AllAbove(can_land_hysteresis_', can_land_thr_) ) => state' = LAND]_vars

\* LAND was entered after an exploration step, which had left can_land_ false.
C2_Witness ==
  /\ state = LAND
  /\ transition = NEXT1
  /\ prev_slp_state_ = LOITER
  /\ explorarion_is_active_
  /\ AllAbove(can_land_hysteresis_, can_land_thr_)

\* The no-land decision cycles: LOITER cycles that end with decision_taken_ true
\* and can_land_ false.
NoLandDecision ==
  /\ CycleRan
  /\ state = LOITER
  /\ ~trigger_reset_
  /\ decision_taken_'
  /\ ~can_land_'

\* C3 as stated: from LOITER, in a cycle where the decision has been taken and
\* can_land_ is false, the next state is LOITER, exploration is active and the
\* exploration anchor equals the loiter position of that cycle.
C3_AsStated ==
  [][NoLandDecision =>
       /\ state' = LOITER
       /\ explorarion_is_active_'
       /\ exploration_anchor_' = loiter_position_']_vars

\* C3: from LOITER, in a cycle where the decision has been taken and can_land_ is
\* false, the next state is GOTO and exploration is active; the exploration
\* anchor equals the loiter position of that cycle when exploration was inactive
\* as the state logic started, and keeps its value otherwise.
C3_NoLandGoesToGoTo ==
  [][NoLandDecision =>
       /\ state' = GOTO
       /\ prev_slp_state_' = LOITER
       /\ explorarion_is_active_'
       /\ exploration_anchor_' =
            IF explorarion_is_active_ /\ is_land_waypoint_
            THEN exploration_anchor_
            ELSE loiter_position_']_vars

\* A no-land decision was taken away from the anchor, while already exploring.
C3_Witness ==
  /\ state = GOTO
  /\ transition = NEXT2
  /\ prev_slp_state_ = LOITER
  /\ explorarion_is_active_
  /\ exploration_anchor_ # loiter_position_

\* C4 as stated: with the grid sequence number advancing by one per cycle,
\* decision_taken_ is false during the first 19 LOITER cycles after entry and
\* true on the 20th, whatever the terrain grid contains.
C4_AsStated ==
  /\ (loiter_cycles >= 1 /\ loiter_cycles <= 19) => ~decision_taken_
  /\ loiter_cycles = 20 => decision_taken_

\* C4: with the grid sequence number advancing by one per cycle,
\* decision_taken_ is false during the first 20 LOITER cycles after entry and
\* true on the 21st, whatever the terrain grid contains.
C4_DecisionOn21st ==
  /\ (loiter_cycles >= 0 /\ loiter_cycles <= DecisionWindow) => ~decision_taken_
  /\ loiter_cycles = DecisionWindow + 1 => decision_taken_

\* The 21st LOITER cycle of a stay took the decision.
C4_Witness ==
  loiter_cycles = DecisionWindow + 1 /\ decision_taken_ /\ transition # NONE

\* C5: LOITER is entered only from GOTO or ALTITUDE_CHANGE, only in a cycle in
\* which the vehicle is within the landing radius of the goal and within the
\* vertical range of the reference altitude and the waypoint is a landing
\* waypoint; every entering cycle sets the decision window's start to the
\* current grid sequence number.
C5_LoiterEntry ==
  [][(CycleRan /\ state # LOITER /\ state' = LOITER) =>
       /\ state \in {GOTO, ALTITUDE_CHANGE}
       /\ ~trigger_reset_
       /\ withinLandingRadius(Self')
       /\ inVerticalRange(Self')
       /\ is_land_waypoint_
       /\ start_seq_landing_decision_' = grid_slp_seq_]_vars

\* LOITER was entered from ALTITUDE_CHANGE on a grid later than the one the
\* previous window started on.
C5_Witness ==
  /\ state = LOITER
  /\ transition = NEXT1
  /\ prev_slp_state_ = ALTITUDE_CHANGE
  /\ start_seq_landing_decision_ = grid_slp_seq_
  /\ grid_slp_seq_ > 0

\* C6: from GOTO with no reset pending, the next state is ALTITUDE_CHANGE exactly
\* when the vehicle is within the landing radius, not within the vertical range,
\* and the waypoint is a landing waypoint; the next state is GOTO whenever the
\* vehicle is outside the landing radius or the waypoint is not a landing
\* waypoint.
C6_GoToBranches ==
  [][(CycleRan /\ state = GOTO /\ ~trigger_reset_) =>
       /\ (state' = ALTITUDE_CHANGE) <=>
            ( /\ withinLandingRadius(Self')
              /\ ~inVerticalRange(Self')
              /\ is_land_waypoint_ )
       /\ (~withinLandingRadius(Self') \/ ~is_land_waypoint_) => state' = GOTO]_vars

\* GOTO handed over to ALTITUDE_CHANGE.
C6_Witness ==
  /\ state = ALTITUDE_CHANGE
  /\ transition = NEXT1
  /\ prev_slp_state_ = GOTO
  /\ withinLandingRadius(Self)
  /\ ~inVerticalRange(Self)

\* The object with the fields a reset cycle is allowed to change masked out.
ApartFromStateAndReset(c) ==
  [c EXCEPT !.state = GOTO, !.prev_slp_state_ = GOTO, !.trigger_reset_ = FALSE]

\* C7: every cycle publishes exactly one setpoint tuple, in every state, except
\* a cycle that starts with the reset pending: that one publishes nothing, runs
\* no state logic, and consumes the reset, so that the following cycle runs
\* normally.
C7_OneSetpointPerCycle ==
  [][CycleRan =>
       IF trigger_reset_
       THEN /\ published' = << >>
            /\ transition' = ERROR
            /\ ~trigger_reset_'
            /\ ApartFromStateAndReset(Self') = ApartFromStateAndReset(updateGPState(Self))
       ELSE /\ Len(published') = 1
            /\ transition' # ERROR
            /\ ~trigger_reset_']_vars

\* A reset cycle took the controller out of LAND without publishing.
C7_Witness ==
  /\ transition = ERROR
  /\ published = << >>
  /\ prev_slp_state_ = LAND
  /\ state = GOTO
  /\ ~trigger_reset_

\* C8 as stated: a cycle in which the waypoint is not a landing waypoint leaves
\* decision_taken_ false, can_land_ true, every hysteresis cell zero and
\* exploration inactive with its index and factor at their initial values, in
\* whatever state the controller is.
C8_AsStated ==
  [][(CycleRan /\ ~is_land_waypoint_) =>
       /\ ~decision_taken_'
       /\ can_land_'
       /\ AllZero(can_land_hysteresis_')
       /\ ~explorarion_is_active_'
       /\ n_explored_pattern_' = -1
       /\ factor_exploration_' = 1]_vars

\* The exploration steps that wrap the pattern index.
WrappingStep ==
  /\ NoLandDecision
  /\ is_land_waypoint_
  /\ n_explored_pattern_ = Len(exploration_pattern) - 1

\* C9 as stated: each exploration step that advances the index past the end of
\* the pattern wraps it to the start, adds 1 to the growth factor, and uses for
\* the goal it generates an offset strictly larger than the one used for the
\* same index on the previous lap.
C9_AsStated ==
  [][WrappingStep =>
       /\ n_explored_pattern_' = 0
       /\ factor_exploration_' = factor_exploration_ + 1
       /\ OffsetUsed(Self') > lap_offset[0]]_vars

\* C10: the anchor is captured from the loiter position at the first no-land
\* decision made while exploration is inactive, no later cycle changes it
\* (later no-land decisions and LOITER re-entries included) until a cycle with
\* a non-landing waypoint resets exploration, and every exploration goal
\* generated in between has the anchor's altitude.
C10_AnchorFrozen ==
  [][/\ (NoLandDecision /\ ~(explorarion_is_active_ /\ is_land_waypoint_)) =>
          /\ exploration_anchor_' = loiter_position_'
          /\ explorarion_is_active_'
     /\ (explorarion_is_active_ /\ (CycleRan => is_land_waypoint_)) =>
          /\ exploration_anchor_' = exploration_anchor_
          /\ explorarion_is_active_'
     /\ NoLandDecision => goal_'.z = exploration_anchor_'.z]_vars

\* A later no-land decision, taken at another loiter position, kept the anchor.
C10_Witness ==
  /\ transition = NEXT2
  /\ explorarion_is_active_
  /\ n_explored_pattern_ >= 1
  /\ loiter_position_ # exploration_anchor_
  /\ goal_.z = exploration_anchor_.z
  /\ lap_offset[0] > 0

\* C11 as stated: the first LOITER cycle after entry from another state sets the
\* loiter position and yaw to the vehicle's pose, and every following
\* consecutive LOITER cycle keeps them, so the setpoint published during a stay
\* does not follow the vehicle.
C11_AsStated ==
  [][(CycleRan /\ state = LOITER /\ ~trigger_reset_ /\ loiter_cycles >= 0) =>
       /\ loiter_cycles = 0 =>
            /\ loiter_position_' = position_
            /\ loiter_yaw_' = yaw_
       /\ loiter_cycles >= 1 =>
            /\ loiter_position_' = loiter_position_
            /\ loiter_yaw_' = loiter_yaw_
       /\ published'[1].position = loiter_position_'
       /\ published'[1].yaw = loiter_yaw_']_vars

Min(a, b) == IF a <= b THEN a ELSE b

Max(a, b) == IF a <= b THEN b ELSE a

\* The LOITER cycles: cycles that run runLoiter.
LoiterCycle == CycleRan /\ state = LOITER /\ ~trigger_reset_

\* C12: for beta in [0, 1), over consecutive LOITER cycles with the raw value v
\* of a cell held, the cell's smoothed value moves monotonically toward v and
\* stays between min(v, previous) and max(v, previous); with raw values in
\* [0, 1] and a zeroed buffer every cell stays in [0, 1].
C12_HysteresisBounds ==
  [][/\ LoiterCycle =>
          LET c == updateGPState(Self)
          IN \A k \in 1 .. Len(can_land_hysteresis_') :
               LET v == TerrainSnapshots[c.grid_slp_].land_[WindowCell(c, k)] * Scale
                   prev == c.can_land_hysteresis_[k]
                   new == can_land_hysteresis_'[k]
               IN /\ Min(v, prev) <= new
                  /\ new <= Max(v, prev)
                  /\ Abs(v - new) <= Abs(v - prev)
     /\ \A k \in 1 .. Len(can_land_hysteresis_') :
          can_land_hysteresis_'[k] \in 0 .. Scale]_vars

\* With a smoothing factor other than one half, a LOITER cycle left one cell
\* at the top of the range and another at the bottom.
C12_Witness ==
  /\ state = LOITER
  /\ transition = REPEAT
  /\ beta_.num * 2 # beta_.den
  /\ beta_.num # 0
  /\ \E k \in 1 .. Len(can_land_hysteresis_) : can_land_hysteresis_[k] = Scale
  /\ \E k \in 1 .. Len(can_land_hysteresis_) : can_land_hysteresis_[k] = 0

\* C13: whenever state logic runs (after updateGPState, in any cycle) the
\* hysteresis buffer has exactly (2 * smoothing_land_cell_ + 1)^2 cells, also
\* after the smoothing radius was changed in flight, and every index the LOITER
\* filter writes is inside the buffer.
C13_BufferSized ==
  [][CycleRan =>
       LET c == updateGPState(Self)
       IN /\ Len(c.can_land_hysteresis_) = WindowSize(c)
          /\ Len(can_land_hysteresis_') = WindowSize(Self')
          /\ LoiterCycle =>
               \A i \in FilterRange(c), j \in FilterRange(c) :
                 /\ FilterIndex(c, i, j) >= 0
                 /\ FilterIndex(c, i, j) < Len(c.can_land_hysteresis_)
                 /\ WindowCell(c, FilterIndex(c, i, j) + 1) = << i, j >>]_vars

\* A LOITER cycle filtered the larger window after the radius was raised.
C13_Witness ==
  /\ state = LOITER
  /\ transition = REPEAT
  /\ smoothing_land_cell_ = 2
  /\ Len(can_land_hysteresis_) = 25
  /\ \E k \in 1 .. Len(can_land_hysteresis_) : can_land_hysteresis_[k] > 0

\* C14: at every decision cycle the resulting can_land_ equals the conjunction,
\* taken afresh over all buffer cells, of (smoothed value > can_land_thr_),
\* whatever value can_land_ had before the cycle, also after an earlier no-land
\* decision left it false.
C14_FreshConjunction ==
  [][(LoiterCycle /\ WindowElapsed(Self)) =>
       /\ decision_taken_'
       /\ can_land_' = AllAbove(can_land_hysteresis_', can_land_thr_)]_vars

\* A decision to land was taken after two no-land decisions.
C14_Witness ==
  /\ state = LAND
  /\ transition = NEXT1
  /\ n_explored_pattern_ = 1
  /\ can_land_
  /\ decision_taken_

\* C15 as stated: no cycle in which the waypoint is not a landing waypoint takes
\* the controller into LAND, from any state, LOITER with the decision window
\* elapsed included.
C15_AsStated ==
  [][(CycleRan /\ ~is_land_waypoint_) => ~(state # LAND /\ state' = LAND)]_vars

\* C16: every landing attempt starts from a clean filter: at the start of the
\* first LOITER cycle after LOITER was entered from GOTO or ALTITUDE_CHANGE,
\* decision_taken_ is false and every hysteresis cell is zero; and no cycle
\* outside LOITER changes a buffer cell to a non-zero value.
C16_CleanStart ==
  [][/\ (state = LOITER /\ loiter_cycles = 0) =>
          /\ prev_slp_state_ \in {GOTO, ALTITUDE_CHANGE}
          /\ ~decision_taken_
          /\ AllZero(can_land_hysteresis_)
     /\ (state' = LOITER /\ loiter_cycles' = 0) =>
          /\ ~decision_taken_'
          /\ AllZero(can_land_hysteresis_')
     /\ (CycleRan /\ ~LoiterCycle) =>
          \A k \in 1 .. Len(can_land_hysteresis_') :
            can_land_hysteresis_'[k] # 0 =>
              /\ k <= Len(can_land_hysteresis_)
              /\ can_land_hysteresis_'[k] = can_land_hysteresis_[k]]_vars

\* LOITER was entered again, for the exploration goal, after a stay that had
\* filled the filter.
C16_Witness ==
  /\ state = LOITER
  /\ loiter_cycles = 0
  /\ explorarion_is_active_
  /\ ~decision_taken_
  /\ Len(can_land_hysteresis_) > 0
  /\ AllZero(can_land_hysteresis_)

\* The transitions the table of chooseNextState maps for a state, and REPEAT.
Returnable(s) ==
  CASE s = GOTO -> {REPEAT, NEXT1, NEXT2}
    [] s = ALTITUDE_CHANGE -> {REPEAT, NEXT1}
    [] s = LOITER -> {REPEAT, NEXT1, NEXT2}
    [] s = LAND -> {REPEAT}

\* C17: with no reset pending no state's logic returns a transition the table
\* does not map for that state: GOTO returns only REPEAT/NEXT1/NEXT2,
\* ALTITUDE_CHANGE only REPEAT/NEXT1, LOITER only REPEAT/NEXT1/NEXT2, LAND only
\* REPEAT; the table's fall-through result is reached only by the reset.
C17_OnlyMappedTransitions ==
  [][CycleRan =>
       /\ ~trigger_reset_ => transition' \in Returnable(state)
       /\ (transition' \notin Returnable(state)) => (trigger_reset_ /\ transition' = ERROR)
       /\ transition' = REPEAT => (state' = state /\ prev_slp_state_' = prev_slp_state_)
       /\ transition' # REPEAT => prev_slp_state_' = state]_vars

\* ALTITUDE_CHANGE returned REPEAT while the vehicle was still outside the
\* vertical range.
C17_Witness ==
  /\ state = ALTITUDE_CHANGE
  /\ transition = REPEAT
  /\ prev_slp_state_ = GOTO
  /\ ~inVerticalRange(Self)

\* The horizontal part of the loiter position, and the loiter yaw.
LoiterHold(c) == << c.loiter_position_.x, c.loiter_position_.y, c.loiter_yaw_ >>

\* C18: throughout a stay in LAND every published setpoint has the horizontal
\* loiter position and the loiter yaw captured in the preceding LOITER, the
\* same from cycle to cycle whatever the vehicle does, with the altitude
\* unconstrained, the horizontal velocity unconstrained and the vertical
\* velocity equal to -LAND_SPEED.
C18_LandSetpoint ==
  [][/\ (state = LOITER /\ state' = LAND) =>
          /\ LoiterHold(Self') = << position_.x, position_.y, yaw_ >>
          /\ published'[1].position = loiter_position_'
     /\ (state = LAND /\ state' = LAND) => LoiterHold(Self') = LoiterHold(Self)
     /\ (CycleRan /\ state = LAND /\ ~trigger_reset_) =>
          /\ Len(published') = 1
          /\ published'[1].position = Vector3f(loiter_position_.x, loiter_position_.y, NaN)
          /\ published'[1].yaw = loiter_yaw_
          /\ published'[1].velocity = Vector3f(NaN, NaN, -LAND_SPEED)
          /\ published'[1].yaw_speed = NaN]_vars

\* runLand published the held position while the vehicle was elsewhere with
\* another heading.
C18_Witness ==
  /\ state = LAND
  /\ transition = REPEAT
  /\ published[1].position.x = loiter_position_.x
  /\ published[1].position.z = NaN
  /\ published[1].velocity.z = -LAND_SPEED
  /\ position_.x # loiter_position_.x
  /\ yaw_ # loiter_yaw_

\* What a reset cycle must leave as the update step left it: the decision
\* flags, the hysteresis buffer, the exploration state and the goal.
DecisionAndExploration(c) ==
  << c.decision_taken_, c.can_land_, c.can_land_hysteresis_,
     c.explorarion_is_active_, c.n_explored_pattern_, c.factor_exploration_,
     c.exploration_anchor_, c.goal_ >>

\* C19: a reset pending at the start of a cycle brings the state machine to
\* GOTO from every state, LAND included, and that is the only way LAND is ever
\* left; the cycle leaves the decision flags, the hysteresis buffer, the
\* exploration state and the goal as the update step left them.
C19_ResetToGoTo ==
  [][/\ (CycleRan /\ trigger_reset_) =>
          /\ state' = GOTO
          /\ prev_slp_state_' = state
          /\ DecisionAndExploration(Self') = DecisionAndExploration(updateGPState(Self))
          /\ goal_' = goal_
     /\ (state = LAND /\ state' # LAND) => (CycleRan /\ trigger_reset_ /\ state' = GOTO)]_vars

\* A reset cycle abandoned LOITER in the middle of an exploration and left
\* the exploration state in place.
C19_Witness ==
  /\ transition = ERROR
  /\ state = GOTO
  /\ prev_slp_state_ = LOITER
  /\ explorarion_is_active_
  /\ n_explored_pattern_ = 0

\* C20: after any sequence of cycles n_explored_pattern_ is in
\* -1 .. (pattern length - 1), it is in 0 .. (pattern length - 1) whenever it
\* indexes the pattern, and the growth factor is at least 1 and changes only by
\* +1 on a wrap or back to 1 on a cycle with a non-landing waypoint.
C20_IndexAndFactor ==
  [][/\ n_explored_pattern_' \in -1 .. Len(exploration_pattern) - 1
     /\ factor_exploration_' >= 1
     /\ NoLandDecision => n_explored_pattern_' \in 0 .. Len(exploration_pattern) - 1
     /\ factor_exploration_' # factor_exploration_ =>
          \/ /\ WrappingStep
             /\ n_explored_pattern_' = 0
             /\ factor_exploration_' = factor_exploration_ + 1
          \/ /\ CycleRan
             /\ ~is_land_waypoint_
             /\ factor_exploration_' = 1
     /\ (CycleRan /\ ~is_land_waypoint_) => factor_exploration_' = 1
     /\ (NoLandDecision /\ ~WrappingStep) =>
          n_explored_pattern_' = (IF is_land_waypoint_ THEN n_explored_pattern_ ELSE -1) + 1]_vars

\* The index wrapped and the growth factor went up.
C20_Witness ==
  /\ transition = NEXT2
  /\ n_explored_pattern_ = 0
  /\ factor_exploration_ = 2
  /\ explorarion_is_active_

====
